---- MODULE Spec2Model ----
(***************************************************************************)
(* Android performance monitor: the collector's sampling loop              *)
(* (collector/android_collector.py), the start/stop scripts                *)
(* (scripts/start_collect.py, scripts/stop_collect.py) and the baseline    *)
(* store and comparator (scripts/baseline_manager.py).                     *)
(*                                                                         *)
(* Conventions.  An optional value (Python None or a value) is a set: {}   *)
(* is None, {v} is the value v.  A CSV cell is a sequence: <<>> is the     *)
(* empty text, <<v>> the text of the number v.  A line of a CSV file is a  *)
(* record [hdr, cells]: hdr says whether the cells are column names.       *)
(* Floating point is modelled by exact rational arithmetic on integers.    *)
(***************************************************************************)
EXTENDS Integers, Sequences, FiniteSets, TLC

\* ---------------------------------------------------------------- bounds
MaxProcs == 2       \* collector processes ever spawned
MaxClock == 1       \* wall clock seconds 0..MaxClock
MaxSamples == 1     \* samples one collector process assembles

VARIABLES
    \* the collector processes (android_collector.main), by pid
    pc, stop_requested, csv_path, is_new, buf, exc, nsamples,
    \* history: where in main the first stop signal reached the process
    signalled_at,
    \* APP_PACKAGE configured or not, wall clock, DATA_DIR (file name -> lines),
    \* logs/collector.pid, the start/stop script in progress
    app_package, clock, files, pidFile, sh,
    \* BASELINE_DIR: <name>.json records and <name>_data.csv copies, by name
    baselines, bdata,
    \* history: for each stored name, the arguments and the source of the most
    \* recent create_baseline that succeeded
    created,
    \* the arguments of the operation under way and what the last one reported
    input, report

procVars == <<pc, stop_requested, csv_path, is_new, buf, exc, nsamples, signalled_at>>
runVars == <<procVars, app_package, clock, pidFile, sh>>
storeVars == <<baselines, bdata, created>>
vars == <<pc, stop_requested, csv_path, is_new, buf, exc, nsamples, signalled_at,
          app_package, clock, files, pidFile, sh, baselines, bdata, created, input, report>>

Pids == 1..MaxProcs
NoPid == 0

None == {}
Some(v) == {v}
Val(o) == CHOOSE v \in o : TRUE

\* ------------------------------------------------------------ CSV lines
\* fieldnames of ensure_csv_writer, in order
FieldNames == <<"timestamp", "total_cpu_percent", "mem_total_kb", "mem_available_kb",
                "mem_used_percent", "battery_level", "battery_temp_c",
                "app_cpu_percent", "app_mem_kb">>

NFields == Len(FieldNames)

\* csv.DictWriter.writeheader: one line whose k-th cell is the k-th field name
Header == [hdr |-> TRUE, cells |-> [k \in 1..NFields |-> <<k>>]]

\* csv writes None as the empty text and any other value as its text
Cell(o) == IF o = None THEN <<>> ELSE <<Val(o)>>

\* csv.DictWriter.writerow: one line, the cells in fieldnames order
RowLine(s) == [hdr |-> FALSE, cells |-> [k \in 1..NFields |-> Cell(s[FieldNames[k]])]]

\* ------------------------------------------------------- collect_once
Cmds == {"cpuinfo", "top", "meminfo", "battery", "app_cpuinfo", "app_meminfo"}

\* what one adb_shell call does: "ok" returns text the parser finds its values
\* in; "fail" returns text without them (non-zero exit, device unreachable: the
\* CalledProcessError is caught and its output returned); "noexec" raises an
\* OSError out of subprocess.check_output (adb cannot be executed), which
\* adb_shell does not catch; "hang" never returns (check_output has no timeout).
Outcomes == {"ok", "fail", "noexec", "hang"}

adb_shell(o, cmd) == o[cmd]

\* the commands collect_once issues, in order: top only when the cpuinfo text
\* gave no total, the two app commands only when a package is configured
Issued(o, app) ==
    <<"cpuinfo">>
    \o (IF adb_shell(o, "cpuinfo") = "ok" THEN <<>> ELSE <<"top">>)
    \o <<"meminfo", "battery">>
    \o (IF app THEN <<"app_cpuinfo", "app_meminfo">> ELSE <<>>)

\* parsed value of a command's text: absent unless the command answered
Parsed(o, cmd, v) == IF adb_shell(o, cmd) = "ok" THEN Some(v) ELSE None

collect_once(o, app, now) ==
    LET cmds == Issued(o, app)
        bad == {i \in 1..Len(cmds) : adb_shell(o, cmds[i]) \in {"noexec", "hang"}}
        first == CHOOSE i \in bad : \A j \in bad : i <= j
        total_cpu == IF Parsed(o, "cpuinfo", 3) # None THEN Parsed(o, "cpuinfo", 3)
                     ELSE Parsed(o, "top", 5)
    IN  IF bad # {}
        THEN [res |-> IF adb_shell(o, cmds[first]) = "hang" THEN "hang" ELSE "raise"]
        ELSE [res |-> "ok",
              row |-> [timestamp |-> Some(now),
                       total_cpu_percent |-> total_cpu,
                       mem_total_kb |-> Parsed(o, "meminfo", 8),
                       mem_available_kb |-> Parsed(o, "meminfo", 4),
                       mem_used_percent |-> Parsed(o, "meminfo", 50),
                       battery_level |-> Parsed(o, "battery", 90),
                       battery_temp_c |-> Parsed(o, "battery", 30),
                       app_cpu_percent |-> IF app THEN Parsed(o, "app_cpuinfo", 16) ELSE None,
                       app_mem_kb |-> IF app THEN Parsed(o, "app_meminfo", 100) ELSE None]]

\* the command outcomes a collector process meets: the device and adb treat
\* every command of one sample alike (all answer, all fail, adb cannot be
\* executed, the device does not answer)
Scenarios == {o \in [Cmds -> Outcomes] : \A c, d \in Cmds : o[c] = o[d]}

\* ------------------------------------------------- android_collector.main
\* pc of a collector process:
\*   "none"     not spawned            "start"   spawned, lines 205-218 not yet run
\*   "exists"   before os.path.exists  "open"    before open(csv_path, "a")
\*   "loop"     at the while test      "collect" inside collect_once
\*   "flush"    row in the buffer      "finally" in the finally block
\*   "blocked"  inside an adb call that never returns
\*   "stopped"  main returned          "crashed" ended by an exception
\*   "killed"   ended by a signal (SIGKILL, or SIGTERM before the handler is set)
Ended == {"none", "stopped", "crashed", "killed"}
Alive(p) == pc[p] \notin Ended
Sampling(p) == pc[p] \in {"loop", "collect", "flush", "blocked"}

\* lines 205-218: the log's name from the clock, write_pid, the signal handlers
MainSetup(p) ==
    /\ pc[p] = "start"
    /\ csv_path' = [csv_path EXCEPT ![p] = clock]
    /\ pidFile' = p
    /\ pc' = [pc EXCEPT ![p] = "exists"]
    /\ UNCHANGED <<stop_requested, is_new, buf, exc, nsamples, signalled_at, app_package, clock, files, sh, storeVars, input, report>>

\* ensure_csv_writer, line 178: is_new = not os.path.exists(csv_path)
CheckNew(p) ==
    /\ pc[p] = "exists"
    /\ is_new' = [is_new EXCEPT ![p] = csv_path[p] \notin DOMAIN files]
    /\ pc' = [pc EXCEPT ![p] = "open"]
    /\ UNCHANGED <<stop_requested, csv_path, buf, exc, nsamples, signalled_at, app_package, clock, files, pidFile, sh, storeVars, input, report>>

\* ensure_csv_writer, lines 179-196: open for append (creating the file); the
\* header goes to the handle's buffer when is_new.  open may fail (storage):
\* the OSError leaves main before the try block.
OpenCsv(p) ==
    /\ pc[p] = "open"
    /\ \E ok \in BOOLEAN :
        IF ok
        THEN /\ files' = IF csv_path[p] \in DOMAIN files THEN files
                         ELSE files @@ (csv_path[p] :> <<>>)
             /\ buf' = [buf EXCEPT ![p] = IF is_new[p] THEN <<Header>> ELSE <<>>]
             /\ pc' = [pc EXCEPT ![p] = "loop"]
             /\ exc' = exc
        ELSE /\ exc' = [exc EXCEPT ![p] = "storage"]
             /\ pc' = [pc EXCEPT ![p] = "crashed"]
             /\ UNCHANGED <<files, buf>>
    /\ UNCHANGED <<stop_requested, csv_path, is_new, nsamples, signalled_at, app_package, clock, pidFile, sh, storeVars, input, report>>

\* line 222: while not stop_requested
LoopTop(p) ==
    /\ pc[p] = "loop"
    /\ IF stop_requested[p]
       THEN pc' = [pc EXCEPT ![p] = "finally"]
       ELSE /\ nsamples[p] < MaxSamples
            /\ pc' = [pc EXCEPT ![p] = "collect"]
    /\ UNCHANGED <<stop_requested, csv_path, is_new, buf, exc, nsamples, signalled_at, app_package, clock, files, pidFile, sh, storeVars, input, report>>

\* lines 223-224: row = collect_once(cfg); writer.writerow(row)
CollectOnce(p) ==
    /\ pc[p] = "collect"
    /\ \E o \in Scenarios :
        LET r == collect_once(o, app_package, clock)
        IN  CASE r.res = "ok" ->
                    /\ buf' = [buf EXCEPT ![p] = Append(@, RowLine(r.row))]
                    /\ nsamples' = [nsamples EXCEPT ![p] = @ + 1]
                    /\ pc' = [pc EXCEPT ![p] = "flush"]
                    /\ exc' = exc
              [] r.res = "raise" ->
                    /\ exc' = [exc EXCEPT ![p] = "OSError"]
                    /\ pc' = [pc EXCEPT ![p] = "finally"]
                    /\ UNCHANGED <<buf, nsamples>>
              [] r.res = "hang" ->
                    /\ pc' = [pc EXCEPT ![p] = "blocked"]
                    /\ UNCHANGED <<buf, nsamples, exc>>
    /\ UNCHANGED <<stop_requested, csv_path, is_new, signalled_at, app_package, clock, files, pidFile, sh, storeVars, input, report>>

\* mutant of Flush: the stop flag is also looked at after collect_once, and a
\* sample in flight is dropped when it is set
Flush_DropOnStop(p) ==
    /\ pc[p] = "flush"
    /\ IF stop_requested[p]
       THEN /\ buf' = [buf EXCEPT ![p] = SubSeq(@, 1, Len(@) - 1)]
            /\ pc' = [pc EXCEPT ![p] = "finally"]
            /\ UNCHANGED <<files, exc>>
       ELSE /\ files' = [files EXCEPT ![csv_path[p]] = @ \o buf[p]]
            /\ buf' = [buf EXCEPT ![p] = <<>>]
            /\ pc' = [pc EXCEPT ![p] = "loop"]
            /\ exc' = exc
    /\ UNCHANGED <<stop_requested, csv_path, is_new, nsamples, signalled_at, app_package, clock, pidFile, sh, storeVars, input, report>>

\* lines 225-226: file_handle.flush(); time.sleep(...).  The buffered lines
\* reach the file in one append; a failed write (storage) raises.
Flush(p) ==
    /\ pc[p] = "flush"
    /\ \E ok \in BOOLEAN :
        IF ok
        THEN /\ files' = [files EXCEPT ![csv_path[p]] = @ \o buf[p]]
             /\ buf' = [buf EXCEPT ![p] = <<>>]
             /\ pc' = [pc EXCEPT ![p] = "loop"]
             /\ exc' = exc
        ELSE /\ exc' = [exc EXCEPT ![p] = "storage"]
             /\ pc' = [pc EXCEPT ![p] = "finally"]
             /\ UNCHANGED <<files, buf>>
    /\ UNCHANGED <<stop_requested, csv_path, is_new, nsamples, signalled_at, app_package, clock, pidFile, sh, storeVars, input, report>>

\* lines 227-228: file_handle.close() writes what the buffer holds (nothing
\* after a storage failure) and main returns, or the exception goes on
Close(p) ==
    /\ pc[p] = "finally"
    /\ files' = IF exc[p] = "storage" THEN files
                ELSE [files EXCEPT ![csv_path[p]] = @ \o buf[p]]
    /\ buf' = [buf EXCEPT ![p] = <<>>]
    /\ pc' = [pc EXCEPT ![p] = IF exc[p] = "none" THEN "stopped" ELSE "crashed"]
    /\ UNCHANGED <<stop_requested, csv_path, is_new, exc, nsamples, signalled_at, app_package, clock, pidFile, sh, storeVars, input, report>>

\* a step of collector process p
ProcStep(p) ==
    \/ MainSetup(p)
    \/ CheckNew(p)
    \/ OpenCsv(p)
    \/ LoopTop(p)
    \/ CollectOnce(p)
    \/ Flush(p)
    \/ Close(p)

\* ----------------------------------------------------------------- signals
\* SIGTERM or SIGINT reaching process p: handle_sigterm (lines 213-218) sets
\* the flag; before the handlers are installed the signal ends the process
Delivered(p) ==
    /\ IF pc[p] = "start"
       THEN /\ pc' = [pc EXCEPT ![p] = "killed"]
            /\ stop_requested' = stop_requested
       ELSE /\ stop_requested' = [stop_requested EXCEPT ![p] = TRUE]
            /\ pc' = pc
    /\ signalled_at' = IF stop_requested[p] THEN signalled_at
                       ELSE [signalled_at EXCEPT ![p] = pc[p]]

\* a signal sent by the operator (Ctrl-C, kill)
Signal(p) ==
    /\ Alive(p)
    /\ ~stop_requested[p]
    /\ Delivered(p)
    /\ UNCHANGED <<csv_path, is_new, buf, exc, nsamples, app_package, clock, files, pidFile, sh, storeVars, input, report>>

\* ------------------------------------------------------ start_collect.py
Idle == [pc |-> "idle", pid |-> NoPid]

\* start_collector, lines 41-48: Popen starts a new collector process
StartSpawn ==
    /\ sh = Idle
    /\ \E p \in Pids :
        /\ pc[p] = "none"
        /\ \A q \in Pids : q < p => pc[q] # "none"
        /\ pc' = [pc EXCEPT ![p] = "start"]
        /\ sh' = [pc |-> "spawned", pid |-> p]
    /\ UNCHANGED <<stop_requested, csv_path, is_new, buf, exc, nsamples, signalled_at, app_package, clock, files, pidFile, storeVars, input, report>>

\* start_collector, lines 50-51: the child's pid into the PID file
StartWritePid ==
    /\ sh.pc = "spawned"
    /\ pidFile' = sh.pid
    /\ sh' = Idle
    /\ UNCHANGED <<procVars, app_package, clock, files, storeVars, input, report>>

\* ------------------------------------------------------- stop_collect.py
\* stop_collector, lines 13-15: no PID file, nothing to do
StopNoPid ==
    /\ sh = Idle
    /\ pidFile = NoPid
    /\ UNCHANGED <<procVars, app_package, clock, files, pidFile, sh, storeVars, input, report>>

\* stop_collector, lines 17-22 (and 28-35 when the process is gone): SIGTERM
\* to the pid read from the PID file
StopTerm ==
    /\ sh = Idle
    /\ pidFile # NoPid
    /\ IF Alive(pidFile)
       THEN /\ Delivered(pidFile)
            /\ sh' = [pc |-> "sleep", pid |-> pidFile]
            /\ pidFile' = pidFile
       ELSE /\ pidFile' = NoPid
            /\ UNCHANGED <<pc, stop_requested, signalled_at, sh>>
    /\ UNCHANGED <<csv_path, is_new, buf, exc, nsamples, app_package, clock, files, storeVars, input, report>>

\* stop_collector, lines 24-35: after sleep(1), SIGKILL when /proc/<pid> is
\* still there, then the PID file is removed
StopKill ==
    /\ sh.pc = "sleep"
    /\ clock < MaxClock
    /\ clock' = clock + 1
    /\ IF Alive(sh.pid)
       THEN /\ pc' = [pc EXCEPT ![sh.pid] = "killed"]
            /\ buf' = [buf EXCEPT ![sh.pid] = <<>>]
       ELSE UNCHANGED <<pc, buf>>
    /\ pidFile' = NoPid
    /\ sh' = Idle
    /\ UNCHANGED <<stop_requested, csv_path, is_new, exc, nsamples, signalled_at, app_package, files, storeVars, input, report>>

\* the wall clock
Tick ==
    /\ clock < MaxClock
    /\ clock' = clock + 1
    /\ UNCHANGED <<procVars, app_package, files, pidFile, sh, storeVars, input, report>>

\* ------------------------------------------------------------------- Spec
\* no baseline stored, no baseline_manager command run
\* an empty baselines directory
EmptyStore ==
    /\ baselines = <<>>
    /\ bdata = <<>>
    /\ created = <<>>

NoStore ==
    /\ EmptyStore
    /\ input = [op |-> "none"]
    /\ report = [op |-> "none"]

\* no collector process yet, no script running
NoCollector ==
    /\ pc = [p \in Pids |-> "none"]
    /\ stop_requested = [p \in Pids |-> FALSE]
    /\ csv_path = [p \in Pids |-> 0]
    /\ is_new = [p \in Pids |-> FALSE]
    /\ buf = [p \in Pids |-> <<>>]
    /\ exc = [p \in Pids |-> "none"]
    /\ nsamples = [p \in Pids |-> 0]
    /\ signalled_at = [p \in Pids |-> "none"]
    /\ app_package = TRUE
    /\ clock = 0
    /\ pidFile = NoPid
    /\ sh = Idle

Init ==
    /\ NoCollector
    /\ files = <<>>
    /\ NoStore

Next ==
    \/ \E p \in Pids : ProcStep(p)
    \/ \E p \in Pids : Signal(p)
    \/ StartSpawn
    \/ StartWritePid
    \/ StopNoPid
    \/ StopTerm
    \/ StopKill
    \/ Tick

Spec == Init /\ [][Next]_vars

\* one session: start_collector has just spawned collector process 1
SessionInit ==
    /\ pc = [p \in Pids |-> IF p = 1 THEN "start" ELSE "none"]
    /\ stop_requested = [p \in Pids |-> FALSE]
    /\ csv_path = [p \in Pids |-> 0]
    /\ is_new = [p \in Pids |-> FALSE]
    /\ buf = [p \in Pids |-> <<>>]
    /\ exc = [p \in Pids |-> "none"]
    /\ nsamples = [p \in Pids |-> 0]
    /\ signalled_at = [p \in Pids |-> "none"]
    /\ app_package \in BOOLEAN
    /\ clock = 0
    /\ files = <<>>
    /\ pidFile = NoPid
    /\ sh = [pc |-> "spawned", pid |-> 1]
    /\ NoStore

SessionNext ==
    \/ ProcStep(1)
    \/ Signal(1)
    \/ StartWritePid
    \/ StopNoPid
    \/ StopTerm
    \/ StopKill
    \/ Tick

SessionSpec == SessionInit /\ [][SessionNext]_vars

\* ------------------------------------------------------- numbers (floats)
Abs(i) == IF i < 0 THEN -i ELSE i

RECURSIVE GCD(_, _)
GCD(a, b) == IF b = 0 THEN a ELSE GCD(b, a % b)

\* a float is the exact rational n/d in lowest terms, d > 0
Rat(n, d) ==
    LET g == GCD(Abs(n), d)
    IN  IF g = 0 THEN [n |-> 0, d |-> 0] ELSE [n |-> n \div g, d |-> d \div g]

Less(x, y) == x.n * y.d < y.n * x.d

\* --------------------------------------- compare_with_baseline: one statistic
\* mutant of DiffPct: the division done whatever the baseline value is
DiffPct_Unguarded(b_val, c_val) ==
    LET num == 100 * (c_val.n * b_val.d - b_val.n * c_val.d)
        den == b_val.n * c_val.d
    IN  IF den < 0 THEN Rat(-num, -den) ELSE Rat(num, den)

\* baseline_manager.py line 258 (CPU) and 293 (memory):
\*   diff_pct = (diff / b_val * 100) if b_val > 0 else 0
DiffPct(b_val, c_val) ==
    IF b_val.n > 0
    THEN Rat(100 * (c_val.n * b_val.d - b_val.n * c_val.d), b_val.n * c_val.d)
    ELSE Rat(0, 1)

\* mutant of Status: a drift of exactly 15% already counts as a regression
Status_RegressionAt15(diff_pct) ==
    IF Abs(diff_pct.n) < 5 * diff_pct.d THEN "stable"
    ELSE IF diff_pct.n >= 15 * diff_pct.d THEN "regression"
    ELSE IF diff_pct.n > 5 * diff_pct.d THEN "minor_regression"
    ELSE IF diff_pct.n < -10 * diff_pct.d THEN "improvement"
    ELSE "minor_improvement"

\* mutant of Status: a drift of exactly 5% either way still counts as stable
Status_WideStable(diff_pct) ==
    IF Abs(diff_pct.n) <= 5 * diff_pct.d THEN "stable"
    ELSE IF diff_pct.n > 15 * diff_pct.d THEN "regression"
    ELSE IF diff_pct.n > 5 * diff_pct.d THEN "minor_regression"
    ELSE IF diff_pct.n < -10 * diff_pct.d THEN "improvement"
    ELSE "minor_improvement"

\* lines 260-269 (CPU) and 295-304 (memory), the if/elif chain in its order;
\* the printed labels are named as the categories they stand for
Status(diff_pct) ==
    IF Abs(diff_pct.n) < 5 * diff_pct.d THEN "stable"
    ELSE IF diff_pct.n > 15 * diff_pct.d THEN "regression"
    ELSE IF diff_pct.n > 5 * diff_pct.d THEN "minor_regression"
    ELSE IF diff_pct.n < -10 * diff_pct.d THEN "improvement"
    ELSE "minor_improvement"

\* lines 255-256 (CPU: the stored and the current value) and 290-291 (memory:
\* both divided by 1024)
Shown(metric, x) == IF metric = "memory" THEN Rat(x.n, x.d * 1024) ELSE x

\* one line of the table: lines 254-271 and 289-306
StatLine(metric, base_x, cur_x) ==
    LET b_val == Shown(metric, base_x)
        c_val == Shown(metric, cur_x)
        diff_pct == DiffPct(b_val, c_val)
    IN  [b_val |-> b_val, c_val |-> c_val, diff_pct |-> diff_pct,
         status |-> Status(diff_pct)]

\* ------------------------------------------------------------ pd.read_csv
\* A number n of the model names the float n.0, whose text csv writes as its
\* repr and pandas reads back exactly.  Sum17 names 6.3999999999999995, the
\* float 0.1 + 6.3 that parse_total_cpu_percent returns for the summary line
\* "0.1% user + 6.3% kernel" (android_collector.py line 61), and Near17 names
\* 6.4, the float next to it.
Sum17 == 63999
Near17 == 64000

\* the float pd.read_csv makes of a number's text with its default converter
\* (float_precision=None): the first 17 digits, leading zeros counted, are
\* accumulated in a double and scaled by a power of ten, which is not the
\* correctly rounded value of every 17-digit repr: "6.3999999999999995" reads
\* as 6.4
xstrtod(text) == IF text = Sum17 THEN Near17 ELSE text

\* pandas reads an empty cell as NaN (absent) and any other cell as its number
ParseCell(cell) == IF cell = <<>> THEN None ELSE Some(xstrtod(cell[1]))

\* one row of the data frame: the cells under the column names of the header,
\* NaN under the names a shorter line has no cell for
ParseRow(line) ==
    [f \in {FieldNames[k] : k \in 1..NFields} |->
        LET k == CHOOSE i \in 1..NFields : FieldNames[i] = f
        IN  IF k <= Len(line.cells) THEN ParseCell(line.cells[k]) ELSE None]

\* lines 36-41 and 223-228: pd.read_csv and the timestamp column.  "failed" is
\* an exception caught there (an empty file: EmptyDataError; a first line that
\* is a sample row: its texts become the column names and df["timestamp"] is a
\* KeyError).  "mixed": a header line among the rows leaves text in the number
\* columns, and the first mean() over them raises.
read_csv(lines) ==
    IF lines = <<>> \/ ~lines[1].hdr
    THEN [status |-> "failed", rows |-> <<>>]
    ELSE IF \E i \in 2..Len(lines) : lines[i].hdr
    THEN [status |-> "mixed", rows |-> <<>>]
    ELSE [status |-> "ok", rows |-> [i \in 1..(Len(lines) - 1) |-> ParseRow(lines[i + 1])]]

\* df[field].dropna(): the values present, in row order
Column(rows, field) ==
    LET idx == SelectSeq([i \in 1..Len(rows) |-> i], LAMBDA i : rows[i][field] # None)
    IN  [k \in 1..Len(idx) |-> Val(rows[idx[k]][field])]

\* ------------------------------------------------------ summary statistics
RECURSIVE Sum(_)
Sum(vals) == IF vals = <<>> THEN 0 ELSE vals[1] + Sum(Tail(vals))

Sorted(vals) == SortSeq(vals, LAMBDA a, b : a < b)

\* Series.mean()
Mean(vals) == Rat(Sum(vals), Len(vals))

\* Series.quantile(qn/qd), pandas' linear interpolation between the two
\* neighbouring order statistics
Quantile(vals, qn, qd) ==
    LET s == Sorted(vals)
        h == (Len(s) - 1) * qn
        lo == h \div qd
        fr == h % qd
    IN  Rat(s[lo + 1] * (qd - fr) + (IF fr = 0 THEN 0 ELSE s[lo + 2] * fr), qd)

\* Series.max()
Max(vals) == Rat(Sorted(vals)[Len(vals)], 1)

\* ------------------------------------------------------- create_baseline
\* lines 46-66: the five statistics of the CPU and of the memory category
Summary5(vals) ==
    [mean |-> Mean(vals), median |-> Quantile(vals, 1, 2), p90 |-> Quantile(vals, 9, 10),
     p95 |-> Quantile(vals, 19, 20), max |-> Max(vals)]

\* lines 68-83: the battery category needs two readings and more than 0.1 hour
\* between the first and the last row of the frame
HasBattery(rows) ==
    /\ Len(Column(rows, "battery_level")) >= 2
    /\ rows[1].timestamp # None
    /\ rows[Len(rows)].timestamp # None
    /\ (Val(rows[Len(rows)].timestamp) - Val(rows[1].timestamp)) * 10 > 3600

BatterySummary(rows) ==
    LET battery_data == Column(rows, "battery_level")
        seconds == Val(rows[Len(rows)].timestamp) - Val(rows[1].timestamp)
    IN  [drain_rate_per_hour |->
            Rat((battery_data[1] - battery_data[Len(battery_data)]) * 3600, seconds),
         mean_level |-> Mean(battery_data)]

\* lines 85-91
TempSummary(vals) == [mean |-> Mean(vals), max |-> Max(vals)]

\* lines 44-91: baseline_metrics, a category only when it has data
Metrics(rows) ==
    LET cats == {c \in {"cpu", "memory", "battery", "temperature"} :
                    CASE c = "cpu" -> Len(Column(rows, "app_cpu_percent")) > 0
                      [] c = "memory" -> Len(Column(rows, "app_mem_kb")) > 0
                      [] c = "battery" -> HasBattery(rows)
                      [] c = "temperature" -> Len(Column(rows, "battery_temp_c")) > 0}
    IN  [c \in cats |->
            CASE c = "cpu" -> Summary5(Column(rows, "app_cpu_percent"))
              [] c = "memory" -> Summary5(Column(rows, "app_mem_kb"))
              [] c = "battery" -> BatterySummary(rows)
              [] c = "temperature" -> TempSummary(Column(rows, "battery_temp_c"))]

\* line 100: (timestamp.max() - timestamp.min()) in minutes, NaN without rows
Duration(rows) ==
    LET ts == Column(rows, "timestamp")
    IN  IF ts = <<>> THEN None
        ELSE Some(Rat(Sorted(ts)[Len(ts)] - Sorted(ts)[1], 60))

\* lines 94-102: the baseline record
Record(name, description, now, source_file, rows) ==
    [name |-> name, description |-> description, created_at |-> now,
     source_file |-> source_file, data_points |-> Len(rows),
     duration_minutes |-> Duration(rows), metrics |-> Metrics(rows)]

\* ------------------------------------------------- compare_with_baseline
\* the column a category is computed from
ColumnOf(metric) == IF metric = "cpu" THEN "app_cpu_percent" ELSE "app_mem_kb"

\* lines 239-241 and 273-276 (again 315-317 and 326-328): the categories compared
Compared(baseline_metrics, rows) ==
    {m \in {"cpu", "memory"} :
        m \in DOMAIN baseline_metrics /\ Len(Column(rows, ColumnOf(m))) > 0}

\* lines 242-247 and 277-282: the statistics of the current series
Current(vals) ==
    [mean |-> Mean(vals), p90 |-> Quantile(vals, 9, 10),
     p95 |-> Quantile(vals, 19, 20), max |-> Max(vals)]

\* lines 318-319 and 329-330: (current - baseline) / baseline * 100 with no
\* guard.  The operands are numpy floats: a zero baseline gives +inf or -inf
\* (1/0, -1/0) or nan (0/0), not an exception.
SessionDiff(b, c) ==
    LET num == 100 * (c.n * b.d - b.n * c.d)
        den == b.n * c.d
    IN  IF den < 0 THEN Rat(-num, -den) ELSE Rat(num, den)

\* x > k and x < k for such a value: nan compares false, inf by its sign
More(x, k) == IF x.d = 0 THEN x.n > 0 ELSE x.n > k * x.d
Under(x, k) == IF x.d = 0 THEN x.n < 0 ELSE x.n < k * x.d

\* mutant of Verdict: the improvement test no longer an elif of the regression test
Verdict_BothTests(mean_diff, p90_diff) ==
    {v \in {"regression", "improvement"} :
        \/ v = "regression" /\ (More(mean_diff, 15) \/ More(p90_diff, 20))
        \/ v = "improvement" /\ Under(mean_diff, -10)}

\* lines 321-324 and 332-335: what is appended to issues and to improvements
Verdict(mean_diff, p90_diff) ==
    IF More(mean_diff, 15) \/ More(p90_diff, 20) THEN {"regression"}
    ELSE IF Under(mean_diff, -10) THEN {"improvement"}
    ELSE {}

\* lines 236-348: the tables and the session-level summary
CompareReport(baseline, rows) ==
    LET compared == Compared(baseline.metrics, rows)
        cur(m) == Current(Column(rows, ColumnOf(m)))
        mean_diff(m) == SessionDiff(baseline.metrics[m].mean, cur(m).mean)
        p90_diff(m) == SessionDiff(baseline.metrics[m].p90, cur(m).p90)
    IN  [table |-> [m \in compared |->
                      [key \in {"mean", "p90", "p95", "max"} |->
                          StatLine(m, baseline.metrics[m][key], cur(m)[key])]],
         drift |-> [m \in compared |-> [mean |-> mean_diff(m), p90 |-> p90_diff(m)]],
         verdict |-> [m \in compared |-> Verdict(mean_diff(m), p90_diff(m))]]

\* ---------------------------------------------------------- SpecClassify
\* the classifier on its own: a baseline value and a current value in tenths
MaxCur == 300
BaseTenths == {-100, 0, 100, 200}
CurTenths == 0..MaxCur

ClassifyInit ==
    /\ NoCollector
    /\ files = <<>>
    /\ EmptyStore
    /\ \E m \in {"cpu", "memory"}, b \in BaseTenths, c \in CurTenths :
        input = [op |-> "classify", metric |-> m, base |-> Rat(b, 10), cur |-> Rat(c, 10)]
    /\ report = [op |-> "none"]

Classify ==
    /\ input.op = "classify"
    /\ report.op = "none"
    /\ report' = [op |-> "classify", line |-> StatLine(input.metric, input.base, input.cur)]
    /\ UNCHANGED <<runVars, files, storeVars, input>>

ClassifyNext == Classify

SpecClassify == ClassifyInit /\ [][ClassifyNext]_vars

\* ----------------------------------------------------------- SpecCompare
\* compare_with_baseline as a function of the session a baseline was created
\* from and of the session it is compared with

MaxLen == 2

\* readings of the app columns, in percent and in KB alike
AppVals == {0, 100, 125, 140}

\* the app readings of a session, a sample without one included
Readings == UNION {[1..n -> {None} \cup {Some(v) : v \in AppVals}] : n \in 1..MaxLen}

\* the log of a session whose samples carry the readings in the app columns
\* named by kind, one sample a second
SessionLog(kind, readings) ==
    <<Header>> \o
    [i \in 1..Len(readings) |->
        RowLine([f \in {FieldNames[k] : k \in 1..NFields} |->
                    IF f = "timestamp" THEN Some(i)
                    ELSE IF f = "app_cpu_percent" /\ kind \in {"cpu", "both"} THEN readings[i]
                    ELSE IF f = "app_mem_kb" /\ kind \in {"memory", "both"} THEN readings[i]
                    ELSE None])]

CompareInit ==
    /\ NoCollector
    /\ files = <<>>
    /\ EmptyStore
    /\ \E bk, ck \in {"cpu", "memory", "both"}, b, c \in Readings :
        input = [op |-> "compare", base |-> SessionLog(bk, b), cur |-> SessionLog(ck, c)]
    /\ report = [op |-> "none"]

\* create_baseline on the first log, compare_with_baseline on the second
Compare ==
    /\ input.op = "compare"
    /\ report.op = "none"
    /\ LET baseline == Record("baseline", "", 0, 1, read_csv(input.base).rows)
       IN  report' = [op |-> "compare",
                      result |-> CompareReport(baseline, read_csv(input.cur).rows)]
    /\ UNCHANGED <<runVars, files, storeVars, input>>

CompareNext == Compare

SpecCompare == CompareInit /\ [][CompareNext]_vars

\* ---------------------------------------------------------- SpecBaseline
\* baseline_manager.py over DATA_DIR and the baselines directory

MaxFiles == 2

Names == {"v1", "v2"}
Descriptions == {"", "release"}

\* a sample row as the collector writes it, its time in seconds from the first
Sample(ts, cpu, mem, level, temp) ==
    RowLine([timestamp |-> Some(ts), total_cpu_percent |-> Some(3),
             mem_total_kb |-> Some(8), mem_available_kb |-> Some(4),
             mem_used_percent |-> Some(50), battery_level |-> Some(level),
             battery_temp_c |-> Some(temp), app_cpu_percent |-> Some(cpu),
             app_mem_kb |-> Some(mem)])

\* the logs a session leaves in DATA_DIR: killed before the first flush (empty),
\* stopped before the first sample (the header alone), a run of seven minutes,
\* a run of two samples, and the log two collectors started in the same second
\* share (each writes the header before its first row)
Logs == {<<>>,
         <<Header>>,
         <<Header, Sample(0, 100, 2048, 90, 30), Sample(420, 125, 4096, 80, 32)>>,
         <<Header, Sample(0, 100, 2048, 90, 30), Sample(1, 140, 1024, 90, 31)>>,
         <<Header, Sample(0, 100, 2048, 90, 30), Header, Sample(0, 140, 1024, 90, 31)>>}

\* android_collector.main as a whole: a session started at a later second than
\* any before it leaves its log, named by that second
SessionLogged ==
    /\ clock < MaxFiles
    /\ clock' = clock + 1
    /\ \E log \in Logs : files' = files @@ ((clock + 1) :> log)
    /\ UNCHANGED <<procVars, app_package, pidFile, sh, storeVars, input, report>>

\* sorted(glob.glob(...))[-1]: the names are timestamps of one width
Latest == CHOOSE f \in DOMAIN files : \A g \in DOMAIN files : g <= f

\* where the text of a row is cut when only a prefix of it is in the file:
\* after the cell of this number (after the timestamp; after app_cpu_percent,
\* the whole of app_mem_kb missing), or inside the last cell
TearPoints == {1, NFields - 1}

\* what is left of a row cut there: its first cells, or all of them with the
\* last cell's number cut short
TornRows(line) ==
    {[hdr |-> FALSE, cells |-> SubSeq(line.cells, 1, k), torn |-> TRUE] : k \in TearPoints}
    \cup (IF line.cells[NFields] = <<>> THEN {}
          ELSE {[hdr |-> FALSE, torn |-> TRUE,
                 cells |-> [line.cells EXCEPT ![NFields] = <<@[1] \div 10>>]]})

\* what a read of log f can return: the lines in the file, and, while a
\* collector's file_handle.flush() (android_collector.py line 225) is under
\* way on f, those lines followed by a prefix of what is being written
ReadViews(f) ==
    {files[f]} \cup
    UNION {{files[f] \o SubSeq(buf[p], 1, Len(buf[p]) - 1) \o <<t>> :
                t \in TornRows(buf[p][Len(buf[p])])} :
            p \in {q \in Pids : pc[q] = "flush" /\ csv_path[q] = f /\ buf[q] # <<>>}}

\* mutant of Stored: a file already there is kept as it is
Stored_KeepExisting(dir, name, content) ==
    IF name \in DOMAIN dir THEN dir
    ELSE [n \in DOMAIN dir \cup {name} |-> IF n = name THEN content ELSE dir[n]]

\* open(baseline_file, "w") and shutil.copy: the file of that name is written
\* anew, whether or not there was one
Stored(dir, name, content) ==
    [n \in DOMAIN dir \cup {name} |-> IF n = name THEN content ELSE dir[n]]

\* mutant of Removed: the files of every name go
Removed_Every(dir, name) == [n \in {} |-> dir[n]]

\* Path.unlink
Removed(dir, name) == [n \in DOMAIN dir \ {name} |-> dir[n]]

\* mutant of load: a name without a record reads as a record without data
load_Blank(name) ==
    IF name \in DOMAIN baselines THEN Some(baselines[name])
    ELSE Some(Record(name, "", 0, 0, <<>>))

\* baseline_file.exists() and json.load: the record stored under the name
load(name) == IF name \in DOMAIN baselines THEN Some(baselines[name]) ELSE None

\* the record a create_baseline with these arguments writes
RecordOf(name, c) == Record(name, c.description, c.now, c.source_file, read_csv(c.lines).rows)

\* lines 24-125; pd.read_csv and shutil.copy taken as one read of the log
create_baseline(name, description) ==
    /\ IF DOMAIN files = {}
       THEN /\ report' = [op |-> "create", name |-> name, status |-> "no_data"]
            /\ UNCHANGED storeVars
       ELSE \E view \in ReadViews(Latest) :
            LET df == read_csv(view)
                c == [description |-> description, now |-> clock, source_file |-> Latest,
                      lines |-> view,
                      replaced |-> name \in DOMAIN bdata /\ bdata[name] # view]
            IN  IF df.status # "ok"
                THEN /\ report' = [op |-> "create", name |-> name,
                                   status |-> IF df.status = "failed" THEN "read_failed"
                                              ELSE "raised"]
                     /\ UNCHANGED storeVars
                ELSE /\ baselines' = Stored(baselines, name, RecordOf(name, c))
                     /\ bdata' = Stored(bdata, name, view)
                     /\ created' = [n \in DOMAIN created \cup {name} |->
                                       IF n = name THEN c ELSE created[n]]
                     /\ report' = [op |-> "create", name |-> name, status |-> "ok"]
    /\ UNCHANGED <<runVars, files, input>>

\* the characters of a baseline name, as code points
NameText ==
    [n \in {"v1", "v1-rc", "v2"} |->
        CASE n = "v1" -> <<118, 49>>
          [] n = "v1-rc" -> <<118, 49, 45, 114, 99>>
          [] n = "v2" -> <<118, 50>>]

\* BASELINE_DIR / f"{name}.json": the name of the record's file
baseline_file(name) == NameText[name] \o <<46, 106, 115, 111, 110>>

\* str.__lt__ on two file names: the first differing character decides, a
\* proper prefix comes first
RECURSIVE Before(_, _)
Before(a, b) ==
    IF b = <<>> THEN FALSE
    ELSE IF a = <<>> THEN TRUE
    ELSE IF a[1] # b[1] THEN a[1] < b[1]
    ELSE Before(Tail(a), Tail(b))

\* mutant of sorted_glob: the records in the order of their names
RECURSIVE sorted_glob_ByName(_)
sorted_glob_ByName(dir) ==
    IF DOMAIN dir = {} THEN <<>>
    ELSE LET first == CHOOSE n \in DOMAIN dir :
                        \A m \in DOMAIN dir \ {n} : Before(NameText[n], NameText[m])
         IN  <<first>> \o sorted_glob_ByName([m \in DOMAIN dir \ {first} |-> dir[m]])

\* sorted(BASELINE_DIR.glob("*.json")): the names that have a record file, in
\* the order of the files' names
RECURSIVE sorted_glob(_)
sorted_glob(dir) ==
    IF DOMAIN dir = {} THEN <<>>
    ELSE LET first == CHOOSE n \in DOMAIN dir :
                        \A m \in DOMAIN dir \ {n} : Before(baseline_file(n), baseline_file(m))
         IN  <<first>> \o sorted_glob([m \in DOMAIN dir \ {first} |-> dir[m]])

\* lines 128-154: name, creation time and description of every record, in the
\* order of the record files
list_baselines ==
    /\ report' = [op |-> "list",
                  listed |-> [i \in 1..Len(sorted_glob(baselines)) |->
                                LET baseline == baselines[sorted_glob(baselines)[i]]
                                IN  <<baseline.name, baseline.created_at,
                                      baseline.description>>]]
    /\ UNCHANGED <<runVars, files, storeVars, input>>

\* f"{x:.<digits>f}": x in units of 10^-digits, rounded to the nearest, a tie
\* to the even one; "nan" for NaN
Fmt(o, scale) ==
    IF o = None THEN "nan"
    ELSE LET x == Val(o)
             q == (x.n * scale) \div x.d
             r == (x.n * scale) % x.d
         IN  IF 2 * r < x.d THEN q
             ELSE IF 2 * r > x.d THEN q + 1
             ELSE IF q % 2 = 0 THEN q ELSE q + 1

\* lines 168-202: what show_baseline prints of a record
ShowText(baseline) ==
    LET metrics == baseline.metrics
        mb(x) == Some(Rat(x.n, x.d * 1024))
    IN  [description |-> baseline.description, created_at |-> baseline.created_at,
         source_file |-> baseline.source_file, data_points |-> baseline.data_points,
         duration_minutes |-> Fmt(baseline.duration_minutes, 10),
         metrics |-> [c \in DOMAIN metrics |->
            CASE c = "cpu" ->
                   [k \in {"mean", "median", "p90", "p95", "max"} |->
                       Fmt(Some(metrics[c][k]), 100)]
              [] c = "memory" ->
                   [k \in {"mean", "median", "p90", "p95", "max"} |->
                       Fmt(mb(metrics[c][k]), 100)]
              [] c = "battery" ->
                   [drain_rate_per_hour |-> Fmt(Some(metrics[c].drain_rate_per_hour), 100),
                    mean_level |-> Fmt(Some(metrics[c].mean_level), 10)]
              [] c = "temperature" ->
                   [mean |-> Fmt(Some(metrics[c].mean), 10),
                    max |-> Fmt(Some(metrics[c].max), 10)]]]

\* lines 157-202
show_baseline(name) ==
    /\ report' = IF load(name) = None
                 THEN [op |-> "show", name |-> name, status |-> "not_found"]
                 ELSE [op |-> "show", name |-> name, status |-> "ok",
                       shown |-> ShowText(Val(load(name)))]
    /\ UNCHANGED <<runVars, files, storeVars, input>>

\* lines 205-350.  A header line among the rows of the current log makes the
\* first mean() raise, which is reached when the record has a CPU or a memory
\* category.
compare_with_baseline(name) ==
    /\ IF load(name) = None
       THEN report' = [op |-> "compare", name |-> name, status |-> "not_found"]
       ELSE IF DOMAIN files = {}
       THEN report' = [op |-> "compare", name |-> name, status |-> "no_data"]
       ELSE \E view \in ReadViews(Latest) :
            LET baseline == Val(load(name))
                df == read_csv(view)
            IN  report' =
                  IF df.status = "failed"
                  THEN [op |-> "compare", name |-> name, status |-> "read_failed"]
                  ELSE IF df.status = "mixed" /\ DOMAIN baseline.metrics \cap {"cpu", "memory"} # {}
                  THEN [op |-> "compare", name |-> name, status |-> "raised"]
                  ELSE [op |-> "compare", name |-> name, status |-> "ok",
                        baseline_created_at |-> baseline.created_at,
                        current |-> Latest,
                        read |-> view,
                        result |-> CompareReport(baseline, df.rows)]
    /\ UNCHANGED <<runVars, files, storeVars, input>>

\* lines 353-366
delete_baseline(name) ==
    /\ IF load(name) = None
       THEN /\ report' = [op |-> "delete", name |-> name, status |-> "not_found"]
            /\ UNCHANGED storeVars
       ELSE /\ baselines' = Removed(baselines, name)
            /\ bdata' = Removed(bdata, name)
            /\ created' = Removed(created, name)
            /\ report' = [op |-> "delete", name |-> name, status |-> "ok"]
    /\ UNCHANGED <<runVars, files, input>>

BaselineInit ==
    /\ NoCollector
    /\ files = <<>>
    /\ NoStore

BaselineNext ==
    \/ SessionLogged
    \/ \E name \in Names, description \in Descriptions : create_baseline(name, description)
    \/ list_baselines
    \/ \E name \in Names : show_baseline(name)
    \/ \E name \in Names : compare_with_baseline(name)
    \/ \E name \in Names : delete_baseline(name)

SpecBaseline == BaselineInit /\ [][BaselineNext]_vars

\* ------------------------------------------------------------- SpecList
\* the baseline operations over three names, one of them the other's prefix
\* followed by a character that sorts before the "." of ".json"

ListNames == DOMAIN NameText

ListNext ==
    \/ SessionLogged
    \/ \E name \in ListNames : create_baseline(name, "")
    \/ list_baselines
    \/ \E name \in ListNames : show_baseline(name)
    \/ \E name \in ListNames : compare_with_baseline(name)
    \/ \E name \in ListNames : delete_baseline(name)

SpecList == BaselineInit /\ [][ListNext]_vars

\* ------------------------------------------------------------- SpecLive
\* baseline_manager.py run beside one collection session: the collector
\* process, the stop signal sent to it, and the baseline operations

LiveInit ==
    /\ pc = [p \in Pids |-> IF p = 1 THEN "start" ELSE "none"]
    /\ stop_requested = [p \in Pids |-> FALSE]
    /\ csv_path = [p \in Pids |-> 0]
    /\ is_new = [p \in Pids |-> FALSE]
    /\ buf = [p \in Pids |-> <<>>]
    /\ exc = [p \in Pids |-> "none"]
    /\ nsamples = [p \in Pids |-> 0]
    /\ signalled_at = [p \in Pids |-> "none"]
    /\ app_package = TRUE
    /\ clock = 0
    /\ files = <<>>
    /\ pidFile = NoPid
    /\ sh = Idle
    /\ NoStore

LiveNext ==
    \/ ProcStep(1)
    \/ Signal(1)
    \/ \E name \in Names : create_baseline(name, "")
    \/ list_baselines
    \/ \E name \in Names : show_baseline(name)
    \/ \E name \in Names : compare_with_baseline(name)
    \/ \E name \in Names : delete_baseline(name)

SpecLive == LiveInit /\ [][LiveNext]_vars

\* ----------------------------------------------------------- SpecAppend
\* baseline_manager.py run beside a collector that is left running: the
\* collector's appends to its log and the baseline operations

AppendNext ==
    \/ ProcStep(1)
    \/ \E name \in Names : create_baseline(name, "")
    \/ list_baselines
    \/ \E name \in Names : show_baseline(name)
    \/ \E name \in Names : compare_with_baseline(name)
    \/ \E name \in Names : delete_baseline(name)

SpecAppend == LiveInit /\ [][AppendNext]_vars

\* -------------------------------------------------------- SpecRoundTrip
\* a series written by the collector's log writer and read back by
\* baseline_manager.py

MaxSeries == 2

\* the readings of one sample other than its time and its total CPU: none,
\* all zero, or the usual ones
Readouts == {"absent", "zero", "usual"}

\* a sample as collect_once returns it
SampleOf(ts, total_cpu, readout) ==
    [f \in {FieldNames[k] : k \in 1..NFields} |->
        IF f = "timestamp" THEN Some(ts)
        ELSE IF f = "total_cpu_percent" THEN total_cpu
        ELSE CASE readout = "absent" -> None
               [] readout = "zero" -> Some(0)
               [] readout = "usual" -> Some(CHOOSE k \in 1..NFields : FieldNames[k] = f)]

\* the series of up to MaxSeries samples, the i-th taken at second i
SeriesSet ==
    UNION {{[i \in 1..n |-> SampleOf(i, cpu[i], ro[i])] :
               cpu \in [1..n -> {None, Some(0), Some(3), Some(Sum17)}],
               ro \in [1..n -> Readouts]} : n \in 0..MaxSeries}

RoundTripInit ==
    /\ NoCollector
    /\ files = <<>>
    /\ EmptyStore
    /\ \E series \in SeriesSet : input = [op |-> "roundtrip", series |-> series]
    /\ report = [op |-> "none"]

\* ensure_csv_writer on a new file and writer.writerow for each sample, the
\* handle closed; then pd.read_csv of the log
RoundTrip ==
    /\ input.op = "roundtrip"
    /\ report.op = "none"
    /\ LET lines == <<Header>> \o [i \in 1..Len(input.series) |-> RowLine(input.series[i])]
       IN  report' = [op |-> "roundtrip", lines |-> lines, df |-> read_csv(lines)]
    /\ UNCHANGED <<runVars, files, storeVars, input>>

RoundTripNext == RoundTrip

SpecRoundTrip == RoundTripInit /\ [][RoundTripNext]_vars

\* --------------------------------------------------------- SpecSummary
\* create_baseline's summaries as a function of the session log

MaxReadings == 3

\* seconds between the first and the last sample; 360 s is 0.1 hour
Spans == {0, 359, 360, 361, 720}

\* the log of a session of n samples spread evenly over span seconds, with
\* the battery levels given (None where dumpsys battery gave none)
BatteryLog(span, levels) ==
    <<Header>> \o
    [i \in 1..Len(levels) |->
        RowLine([f \in {FieldNames[k] : k \in 1..NFields} |->
                    IF f = "timestamp"
                    THEN Some(IF Len(levels) = 1 THEN 0
                              ELSE ((i - 1) * span) \div (Len(levels) - 1))
                    ELSE IF f = "battery_level" THEN levels[i]
                    ELSE None])]

SummaryInit ==
    /\ NoCollector
    /\ files = <<>>
    /\ EmptyStore
    /\ \E n \in 1..MaxReadings, span \in Spans :
        \E levels \in [1..n -> {None, Some(90), Some(80)}] :
            input = [op |-> "summarise", span |-> IF n = 1 THEN 0 ELSE span,
                     levels |-> levels, log |-> BatteryLog(span, levels)]
    /\ report = [op |-> "none"]

\* lines 36-102: the record create_baseline computes from the log
Summarise ==
    /\ input.op = "summarise"
    /\ report.op = "none"
    /\ report' = [op |-> "summarise",
                  status |-> read_csv(input.log).status,
                  record |-> Record("v1", "", 0, 0, read_csv(input.log).rows)]
    /\ UNCHANGED <<runVars, files, storeVars, input>>

SummaryNext == Summarise

SpecSummary == SummaryInit /\ [][SummaryNext]_vars

\* ----------------------------------------------------------- SpecAppCpu
\* parse_app_cpu_from_cpuinfo over the text of "dumpsys cpuinfo".  A text is
\* its lines, a line its blank-separated tokens (line.strip().split()).

MaxLines == 2
MaxTokens == 2

\* CPU shares a line can carry
Shares == {0, 16, 800}

\* the tokens: a share followed by "%" ("16%"), a token ending in "%" that
\* float() rejects ("n/a%"), a token holding the package name
\* ("23856/com.example.app:"), one naming another process
Tokens ==
    {[kind |-> "pct", val |-> v] : v \in Shares}
    \cup {[kind |-> k, val |-> 0] : k \in {"badpct", "target", "other"}}

TextLines == UNION {[1..n -> Tokens] : n \in 1..MaxTokens}
Texts == UNION {[1..n -> TextLines] : n \in 0..MaxLines}

\* line 114: package_name in line and "%" in line
MentionsApp(line) ==
    /\ \E i \in 1..Len(line) : line[i].kind = "target"
    /\ \E i \in 1..Len(line) : line[i].kind \in {"pct", "badpct"}

\* lines 108-122: the first line that names the package and has a "%", and
\* whose first token ends in "%" and is a number, gives that number
RECURSIVE parse_app_cpu_from_cpuinfo(_, _)
parse_app_cpu_from_cpuinfo(text, package_name) ==
    IF ~package_name \/ text = <<>> THEN None
    ELSE IF MentionsApp(text[1]) /\ text[1][1].kind = "pct"
         THEN Some(text[1][1].val)
         ELSE parse_app_cpu_from_cpuinfo(Tail(text), package_name)

AppCpuInit ==
    /\ NoCollector
    /\ files = <<>>
    /\ EmptyStore
    /\ \E text \in Texts, package_name \in BOOLEAN :
        input = [op |-> "app_cpu", text |-> text, package_name |-> package_name]
    /\ report = [op |-> "none"]

ParseAppCpu ==
    /\ input.op = "app_cpu"
    /\ report.op = "none"
    /\ report' = [op |-> "app_cpu",
                  value |-> parse_app_cpu_from_cpuinfo(input.text, input.package_name)]
    /\ UNCHANGED <<runVars, files, storeVars, input>>

AppCpuNext == ParseAppCpu

SpecAppCpu == AppCpuInit /\ [][AppCpuNext]_vars

\* --------------------------------------------------------- SpecTotalCpu
\* parse_total_cpu_percent over the text of "dumpsys cpuinfo" and, when that
\* gives nothing, over the text of "top -n 1 -b".  A line is what the parser
\* looks at: which marker it carries and its tokens that end in "%" and are
\* numbers, in order.

\* the markers: "TOTAL" in the line without a colon after it ("TOTAL 12%"),
\* "TOTAL:" in the line ("12% TOTAL: 5% user + 6% kernel"), a line that starts
\* with "Total", a line with "CPU usage from", any other line
Marks == {"TOTAL", "TOTAL:", "Total", "usage", "other"}

\* the percentages of a line, "/" and "," making no difference to them
PctRuns == {<<>>, <<0>>, <<3>>, <<3, 5>>}

CpuLines == [mark : Marks, pcts : PctRuns]
CpuTexts == UNION {[1..n -> CpuLines] : n \in 0..MaxLines}
TopTexts == {<<>>} \cup {<<l>> : l \in CpuLines}

\* line 42: "TOTAL" in line or line.strip().startswith("Total")
HasTotal(line) == line.mark \in {"TOTAL", "TOTAL:", "Total"}

\* lines 41-50: the first percentage of the first line with the marker that
\* has one
RECURSIVE TotalLine(_)
TotalLine(text) ==
    IF text = <<>> THEN None
    ELSE IF HasTotal(text[1]) /\ text[1].pcts # <<>>
         THEN Some(text[1].pcts[1])
         ELSE TotalLine(Tail(text))

\* lines 52-62: the percentages of the first "CPU usage from" line that has
\* any, summed
RECURSIVE UsageLine(_)
UsageLine(text) ==
    IF text = <<>> THEN None
    ELSE IF text[1].mark = "usage" /\ text[1].pcts # <<>>
         THEN Some(Sum(text[1].pcts))
         ELSE UsageLine(Tail(text))

\* lines 38-63
parse_total_cpu_percent(text) ==
    IF TotalLine(text) # None THEN TotalLine(text) ELSE UsageLine(text)

TotalCpuInit ==
    /\ NoCollector
    /\ files = <<>>
    /\ EmptyStore
    /\ \E cpuinfo \in CpuTexts, top_out \in TopTexts :
        input = [op |-> "total_cpu", cpuinfo |-> cpuinfo, top_out |-> top_out]
    /\ report = [op |-> "none"]

\* collect_once, lines 140-146: top is run only when the cpuinfo text gave
\* None
ParseTotalCpu ==
    /\ input.op = "total_cpu"
    /\ report.op = "none"
    /\ report' =
        IF parse_total_cpu_percent(input.cpuinfo) # None
        THEN [op |-> "total_cpu", top |-> FALSE,
              total_cpu |-> parse_total_cpu_percent(input.cpuinfo)]
        ELSE [op |-> "total_cpu", top |-> TRUE,
              total_cpu |-> parse_total_cpu_percent(input.top_out)]
    /\ UNCHANGED <<runVars, files, storeVars, input>>

TotalCpuNext == ParseTotalCpu

SpecTotalCpu == TotalCpuInit /\ [][TotalCpuNext]_vars

\* ------------------------------------------------------------------ claims
IsSampleRow(line) ==
    /\ ~line.hdr
    /\ Len(line.cells) = NFields
    /\ line.cells[1] # <<>>

RowsComplete ==
    \A f \in DOMAIN files : \A i \in 1..Len(files[f]) :
        files[f][i] = Header \/ IsSampleRow(files[f][i])

\* what a step of process p may do with respect to the stop request
StopAtTopOnly(p) ==
    \* the loop is left without an exception only from its test, with the flag set
    /\ (pc'[p] = "finally" /\ pc[p] # "finally" /\ exc'[p] = "none")
        => (pc[p] = "loop" /\ stop_requested[p])
    \* a sample in flight when the flag is set is still written ...
    /\ (stop_requested[p] /\ pc[p] = "collect" /\ pc'[p] \notin {"collect", "blocked", "killed"}
            /\ exc'[p] = exc[p])
        => (pc'[p] = "flush" /\ Len(buf'[p]) = Len(buf[p]) + 1
            /\ IsSampleRow(buf'[p][Len(buf'[p])]))
    \* ... and flushed
    /\ (stop_requested[p] /\ pc[p] = "flush" /\ pc'[p] \notin {"flush", "killed"}
            /\ exc'[p] = exc[p])
        => (pc'[p] = "loop" /\ buf[p] # <<>> /\ buf'[p] = <<>>
            /\ files'[csv_path[p]] = files[csv_path[p]] \o buf[p])
    \* after which no further sample is started
    /\ (stop_requested[p] /\ pc[p] = "loop") => pc'[p] \in {"loop", "finally", "killed"}
    \* and the log is closed with nothing left in the buffer
    /\ (pc[p] = "finally" /\ pc'[p] = "stopped")
        => (buf'[p] = <<>> /\ files'[csv_path[p]] = files[csv_path[p]] \o buf[p])

C2_CommandFailureNotFatal ==
    \A p \in Pids : exc[p] \in {"none", "storage"}

\* C3 (as claimed): once a stop request is raised the scheduler is never stuck:
\* it has ended or it can take its next step towards Stopped.
C3_StopNeverBlocked ==
    \A p \in Pids : stop_requested[p] => (pc[p] \in Ended \/ ENABLED ProcStep(p))

\* C4 (as claimed): every log that has content is the header once, as its first
\* line, followed by sample rows only.
C4_HeaderOnceFirst ==
    \A f \in DOMAIN files :
        files[f] # <<>> =>
            /\ files[f][1] = Header
            /\ \A i \in 2..Len(files[f]) : IsSampleRow(files[f][i])

\* C5 (as claimed): at most one collector process is sampling at any time, and
\* no two collector processes have the same log open.
C5_SingleSession ==
    /\ Cardinality({p \in Pids : Sampling(p)}) <= 1
    /\ \A p, q \in Pids :
        (p # q /\ pc[p] \in {"loop", "collect", "flush", "blocked", "finally"}
               /\ pc[q] \in {"loop", "collect", "flush", "blocked", "finally"})
            => csv_path[p] # csv_path[q]

\* the percent difference of the statistic just classified, as n/d
Pct(k) == report.line.diff_pct.n = k * report.line.diff_pct.d
PctLess(k) == report.line.diff_pct.n < k * report.line.diff_pct.d
PctMore(k) == report.line.diff_pct.n > k * report.line.diff_pct.d

\* C8: the bands of the per-statistic classifier, for CPU and for memory:
\* |pct| < 5 stable; pct > 15 regression; 5 < pct <= 15 minor_regression;
\* pct < -10 improvement; -10 <= pct <= -5 minor_improvement.
C8_Bands ==
    report.op = "classify" =>
        /\ (PctMore(-5) /\ PctLess(5)) => report.line.status = "stable"
        /\ PctMore(15) => report.line.status = "regression"
        /\ (PctMore(5) /\ ~PctMore(15)) => report.line.status = "minor_regression"
        /\ PctLess(-10) => report.line.status = "improvement"
        /\ (~PctLess(-10) /\ ~PctMore(-5)) => report.line.status = "minor_improvement"

\* C8 witness: a memory statistic exactly 15% above its baseline has been
\* classified minor_regression
C8_Witness ==
    /\ report.op = "classify"
    /\ input.metric = "memory"
    /\ Pct(15)
    /\ report.line.status = "minor_regression"

\* C9 (as claimed): baseline mean 20.0: a current mean of 23.5 (+17.5%) is
\* regression and a current mean of 19.0 (exactly -5%) is stable.
C9_Examples_Claimed ==
    (report.op = "classify" /\ input.metric = "cpu" /\ input.base = Rat(200, 10)) =>
        /\ input.cur = Rat(235, 10) => report.line.status = "regression"
        /\ input.cur = Rat(190, 10) => report.line.status = "stable"

\* C9 (amended): baseline mean 20.0: a current mean of 23.5 (+17.5%) is
\* regression and a current mean of 19.0 (exactly -5%) is minor_improvement.
C9_Examples ==
    (report.op = "classify" /\ input.metric = "cpu" /\ input.base = Rat(200, 10)) =>
        /\ input.cur = Rat(235, 10) => PctMore(15) /\ report.line.status = "regression"
        /\ input.cur = Rat(190, 10) => Pct(-5) /\ report.line.status = "minor_improvement"

\* C9 witness: the mean 19.0 against the baseline 20.0 has been classified
C9_Witness ==
    /\ report.op = "classify"
    /\ input.metric = "cpu"
    /\ input.base = Rat(200, 10)
    /\ input.cur = Rat(190, 10)
    /\ Pct(-5)


\* ---- C6
\* the record a create with the remembered arguments computes from its series
LastRecord(n) ==
    Record(n, created[n].description, created[n].now, created[n].source_file,
           read_csv(created[n].lines).rows)

\* C6: whatever was stored under a name before, after a successful
\* create_baseline the record and the raw-series copy stored under the name are
\* those of the most recent create and of nothing else, and what show and
\* compare report for the name is taken from that record.
C6_CreateOverwrites ==
    /\ DOMAIN baselines = DOMAIN created
    /\ DOMAIN bdata = DOMAIN created
    /\ \A n \in DOMAIN created :
        /\ baselines[n] = LastRecord(n)
        /\ bdata[n] = created[n].lines
    /\ (report.op = "show" /\ report.status = "ok")
          => report.shown = ShowText(LastRecord(report.name))
    /\ (report.op = "compare" /\ report.status = "ok")
          => /\ report.baseline_created_at = created[report.name].now
             /\ report.read = files[report.current]
             /\ report.result = CompareReport(LastRecord(report.name),
                                              read_csv(files[report.current]).rows)

\* show of a name whose latest create replaced a baseline made from another series
C6_Witness ==
    /\ report.op = "show"
    /\ report.status = "ok"
    /\ created[report.name].replaced

\* compare against a name whose latest create replaced a baseline made from
\* another series
C6_WitnessCompare ==
    /\ report.op = "compare"
    /\ report.status = "ok"
    /\ created[report.name].replaced
    /\ DOMAIN report.result.verdict # {}

\* ---- C7
\* C7: a show, delete or compare of a name without a stored record reports
\* not-found and changes no record, no raw-series copy and no session log.
C7_NotFoundNoEffect ==
    [][\A name \in Names :
          (/\ name \notin DOMAIN baselines
           /\ \/ show_baseline(name)
              \/ delete_baseline(name)
              \/ compare_with_baseline(name))
          => /\ report'.status = "not_found"
             /\ report'.name = name
             /\ UNCHANGED <<baselines, bdata, files>>]_vars

\* a delete of an absent name was reported not-found while another baseline is
\* stored and session logs exist
C7_Witness ==
    /\ report.op = "delete"
    /\ report.status = "not_found"
    /\ DOMAIN baselines # {}
    /\ DOMAIN bdata # {}
    /\ DOMAIN files # {}
\* ---- C10
\* the statistics of a category in the sessions handed to the comparison
SeriesOf(log, m) == Column(read_csv(log).rows, ColumnOf(m))

\* the drift of a current statistic c against its baseline b is above, or
\* below, k percent (a positive value over a zero baseline drifts infinitely)
DriftAbove(b, c, k) ==
    IF b.n > 0 THEN 100 * (c.n * b.d - b.n * c.d) > k * b.n * c.d ELSE c.n > 0
DriftBelow(b, c, k) ==
    b.n > 0 /\ 100 * (c.n * b.d - b.n * c.d) < k * b.n * c.d

RegressionDrift(m) ==
    \/ DriftAbove(Mean(SeriesOf(input.base, m)), Mean(SeriesOf(input.cur, m)), 15)
    \/ DriftAbove(Quantile(SeriesOf(input.base, m), 9, 10),
                  Quantile(SeriesOf(input.cur, m), 9, 10), 20)

ImprovementDrift(m) ==
    DriftBelow(Mean(SeriesOf(input.base, m)), Mean(SeriesOf(input.cur, m)), -10)

\* C10 as claimed: for each category compared, a regression is reported
\* exactly when the mean drifts above 15% or the P90 above 20%, and an
\* improvement whenever the mean drifts below -10%.
C10_SessionSummary_Claimed ==
    report.op = "compare" =>
        \A m \in DOMAIN report.result.verdict :
            /\ "regression" \in report.result.verdict[m] <=> RegressionDrift(m)
            /\ ImprovementDrift(m) => "improvement" \in report.result.verdict[m]

\* C10 amended: for each category compared, a regression is reported exactly
\* when the mean drifts above 15% or the P90 above 20%; an improvement is
\* reported exactly when the mean drifts below -10% and no regression is
\* reported for that category.
C10_SessionSummary ==
    report.op = "compare" =>
        \A m \in DOMAIN report.result.verdict :
            /\ "regression" \in report.result.verdict[m] <=> RegressionDrift(m)
            /\ "improvement" \in report.result.verdict[m]
                  <=> (ImprovementDrift(m) /\ ~RegressionDrift(m))

\* a comparison with a mean below -10% and a P90 above 20% reports the
\* regression alone, and another category of the same comparison or another
\* comparison reports an improvement
C10_Witness ==
    /\ report.op = "compare"
    /\ \E m \in DOMAIN report.result.verdict :
        /\ ImprovementDrift(m)
        /\ RegressionDrift(m)
        /\ report.result.verdict[m] = {"regression"}

C10_WitnessImprovement ==
    /\ report.op = "compare"
    /\ \E m \in DOMAIN report.result.verdict : report.result.verdict[m] = {"improvement"}

\* ---- C11
\* C11: a statistic whose baseline value is zero or negative gets a
\* percent_diff of 0, whatever its current value, and is classified stable.
C11_NonPositiveBaseline ==
    (report.op = "classify" /\ input.base.n <= 0) =>
        /\ report.line.diff_pct = Rat(0, 1)
        /\ report.line.status = "stable"

\* a statistic with a positive current value over a zero baseline, and one over
\* a negative baseline, has been classified
C11_Witness ==
    /\ report.op = "classify"
    /\ input.base.n = 0
    /\ input.cur.n > 0
    /\ report.line.status = "stable"

C11_WitnessNegative ==
    /\ report.op = "classify"
    /\ input.base.n < 0
    /\ report.line.status = "stable"

\* ---- C12
\* the column a category of the baseline is summarised from
CategoryColumn(c) ==
    CASE c = "cpu" -> "app_cpu_percent"
      [] c = "memory" -> "app_mem_kb"
      [] c = "battery" -> "battery_level"
      [] c = "temperature" -> "battery_temp_c"

\* the log the last compare read, as rows
ComparedRows == read_csv(files[report.current]).rows

\* C12: a compare that runs to its end classifies the drift of exactly the
\* categories that have a summary in the baseline and a value in the current
\* series, and in each of them the statistics both sides have.
C12_CategoriesOnBothSides ==
    (report.op = "compare" /\ report.status = "ok") =>
        /\ DOMAIN report.result.table =
              {c \in DOMAIN baselines[report.name].metrics :
                  Len(Column(ComparedRows, CategoryColumn(c))) > 0}
        /\ \A c \in DOMAIN report.result.table :
              DOMAIN report.result.table[c] =
                  DOMAIN baselines[report.name].metrics[c] \cap {"mean", "p90", "p95", "max"}

\* ---- C13
\* a collector process holds log f open for appending (from open() in
\* ensure_csv_writer to file_handle.close())
LogOpen(f) ==
    \E p \in Pids : csv_path[p] = f /\ pc[p] \in {"loop", "collect", "flush", "blocked", "finally"}

\* C13: a create_baseline that succeeds has summarised a closed log, never
\* one a collector still appends to.
C13_CreateFromClosed ==
    [][\A name \in Names :
          (create_baseline(name, "") /\ report'.status = "ok") => ~LogOpen(Latest)]_vars

\* ---- C14
\* C14: a series written through the log writer and read back as the baseline
\* store reads it is the same series: as many samples, in the same order, every
\* field with the value written, an absent field absent.
C14_RoundTrip ==
    report.op = "roundtrip" =>
        /\ report.df.status = "ok"
        /\ report.df.rows = input.series

\* ---- C15
\* the battery levels read in a session, in sample order
LevelsRead == SelectSeq(input.levels, LAMBDA o : o # None)

\* C15: the record has the battery drain rate exactly when the series has two
\* battery readings or more and spans 0.1 hour (360 s) or more, and the rate is
\* then (first level - last level) / hours; creation succeeds either way.
C15_DrainRate ==
    report.op = "summarise" =>
        /\ report.status = "ok"
        /\ "battery" \in DOMAIN report.record.metrics
              <=> (Len(LevelsRead) >= 2 /\ input.span >= 360)
        /\ "battery" \in DOMAIN report.record.metrics =>
              report.record.metrics["battery"].drain_rate_per_hour =
                  Rat((Val(LevelsRead[1]) - Val(LevelsRead[Len(LevelsRead)])) * 3600,
                      input.span)

\* ---- C16
\* the lines of the text that name the target process and carry a share as a
\* token ending in "%"
Carriers ==
    {i \in 1..Len(input.text) :
        /\ \E j \in 1..Len(input.text[i]) : input.text[i][j].kind = "target"
        /\ \E j \in 1..Len(input.text[i]) : input.text[i][j].kind = "pct"}

\* the first token ending in "%" that is a share, on a line
FirstShare(line) ==
    line[CHOOSE j \in 1..Len(line) :
            /\ line[j].kind = "pct"
            /\ \A k \in 1..(j - 1) : line[k].kind # "pct"].val

\* C16: with a target configured, a text with a line naming the target and
\* carrying its share gives the first share of the first such line; a text with
\* no line naming the target, or no target configured, gives absent.
C16_AppCpuParser ==
    report.op = "app_cpu" =>
        /\ (input.package_name /\ Carriers # {}) =>
              report.value =
                  Some(FirstShare(input.text[CHOOSE i \in Carriers : \A k \in Carriers : i <= k]))
        /\ (~input.package_name
              \/ \A i \in 1..Len(input.text) : \A j \in 1..Len(input.text[i]) :
                    input.text[i][j].kind # "target")
              => report.value = None

\* ---- C17
\* a line carrying the TOTAL marker and not the substring "TOTAL:", with a
\* percentage on it
MarkerLine(line) == line.mark \in {"TOTAL", "Total"} /\ line.pcts # <<>>

\* a summary line "<label>: N% user + M% kernel" with its percentages
SummaryLine(line) == line.mark = "usage" /\ line.pcts # <<>>

FirstLine(text, P(_)) ==
    text[CHOOSE i \in 1..Len(text) : P(text[i]) /\ \A k \in 1..(i - 1) : ~P(text[k])]

\* what a text yields: the value of its first marker line if it has one,
\* otherwise the summed percentages of its first summary line, otherwise
\* nothing
Yield(text) ==
    IF \E i \in 1..Len(text) : MarkerLine(text[i])
    THEN Some(FirstLine(text, MarkerLine).pcts[1])
    ELSE IF \E i \in 1..Len(text) : SummaryLine(text[i])
         THEN Some(Sum(FirstLine(text, SummaryLine).pcts))
         ELSE None

\* C17: on the primary text the value of a TOTAL-marker line (one without
\* "TOTAL:") is the result wherever a summary line stands; the secondary text
\* is parsed only when the primary text yields nothing by either strategy; the
\* result is absent only when both texts yield nothing.
C17_TotalCpuPriority ==
    report.op = "total_cpu" =>
        /\ (\E i \in 1..Len(input.cpuinfo) : MarkerLine(input.cpuinfo[i]))
              => report.total_cpu = Yield(input.cpuinfo)
        /\ report.top => Yield(input.cpuinfo) = None
        /\ report.total_cpu = None =>
              (Yield(input.cpuinfo) = None /\ Yield(input.top_out) = None)

\* ---- C18
\* the rows of a read that had reached the file in full
CompleteRows(view) == SelectSeq(view, LAMBDA l : "torn" \notin DOMAIN l)

\* the read of the last compare ended in a row of which only a prefix was in
\* the file
TornRead ==
    /\ report.op = "compare"
    /\ report.status = "ok"
    /\ CompleteRows(report.read) # report.read

\* C18: when the log compare read ended in an incomplete row, the statistics
\* compare reports are those of the complete rows alone.
C18_TornRowDiscarded ==
    TornRead =>
        report.result =
            CompareReport(baselines[report.name], read_csv(CompleteRows(report.read)).rows)

\* ---- C19
\* what is stored under a name: its record and its raw-series copy
StoredUnder(n) ==
    IF n \in DOMAIN baselines THEN Some(<<baselines[n], bdata[n]>>) ELSE None

\* C19: what is stored under a name changes only in a create_baseline or a
\* delete_baseline of that name; the collector's appends to its log, list,
\* show, compare, and a create or delete of another name leave it as it is.
C19_OwnNameOnly ==
    [][\A n \in Names :
          StoredUnder(n)' # StoredUnder(n) =>
              \/ delete_baseline(n)
              \/ \E description \in Descriptions : create_baseline(n, description)]_vars

\* the other name has just been deleted, and the collector has written to the
\* log since the baseline that stays was created from it
C19_Witness ==
    /\ report.op = "delete"
    /\ report.status = "ok"
    /\ \E n \in DOMAIN baselines :
        /\ n # report.name
        /\ files[created[n].source_file] # bdata[n]
        /\ baselines[n] = LastRecord(n)

\* ---- C20
\* the names a list reports, in the order it reports them
ListedNames(r) == [i \in 1..Len(r.listed) |-> r.listed[i][1]]

\* the names in l are each stored name once, those with the smaller key first
InOrderOf(l, key(_)) ==
    /\ {l[i] : i \in 1..Len(l)} = DOMAIN baselines
    /\ \A i, j \in 1..Len(l) : i < j => Before(key(l[i]), key(l[j]))

\* a delete of a stored name removes its record and its raw-series copy and
\* those of no other name; a name without a record gets one only in a create_baseline of that name that
\* succeeds, and until then show and compare of it report not-found; a list
\* reports the stored names and no other, in the order of this key
DeleteRemoves(key(_)) ==
    /\ \A n \in ListNames :
        /\ (n \in DOMAIN baselines /\ delete_baseline(n))
              => /\ DOMAIN baselines' = DOMAIN baselines \ {n}
                 /\ DOMAIN bdata' = DOMAIN bdata \ {n}
        /\ (n \notin DOMAIN baselines /\ n \in DOMAIN baselines')
              => (create_baseline(n, "") /\ report'.status = "ok")
        /\ (n \notin DOMAIN baselines /\ show_baseline(n))
              => report'.status = "not_found"
        /\ (n \notin DOMAIN baselines /\ compare_with_baseline(n))
              => report'.status = "not_found"
    /\ list_baselines => InOrderOf(ListedNames(report'), key)

\* C20 as stated: a deleted baseline's record and raw-series copy are gone,
\* show and compare of it report not-found and list leaves it out until a
\* create of the name succeeds, and list returns the other stored baselines
\* in the order of their names.
C20_DeleteRemoves_Claimed == [][DeleteRemoves(LAMBDA n : NameText[n])]_vars

\* C20, amended: as stated, with list returning the stored baselines in the
\* order of their record files' names ("<name>.json").
C20_DeleteRemoves == [][DeleteRemoves(baseline_file)]_vars

\* one of three stored baselines has just been deleted, the two that stay
\* being a name and its extension by "-rc"
C20_Witness ==
    /\ report.op = "delete"
    /\ report.status = "ok"
    /\ DOMAIN baselines = {"v1", "v1-rc"}
    /\ DOMAIN bdata = {"v1", "v1-rc"}

\* ---- C21
\* no collector process that a start_collector spawned is running
NoneRunning == \A p \in Pids : ~Alive(p)

\* C21: when stop_collector returns, whether at once for want of a PID file,
\* after finding the process gone, or after the sleep and the SIGKILL, no
\* collector process spawned by an earlier start_collector is running and
\* there is no PID file.
C21_StopLeavesNothing ==
    /\ []((sh = Idle /\ pidFile = NoPid) => NoneRunning)
    /\ [][(StopKill \/ (StopTerm /\ ~Alive(pidFile)))
            => (pidFile' = NoPid /\ \A p \in Pids : pc'[p] \in Ended)]_vars

\* ---- C22
\* the session-level summary flags a regression for the metric
Flagged(m) == "regression" \in report.result.verdict[m]

\* C22: within one compare run, a metric the session-level summary flags as a
\* regression has its mean or its p90 classified regression in the
\* per-statistic table, whatever the baseline values are, zero included.
C22_LevelsAgree ==
    report.op = "compare" =>
        \A m \in DOMAIN report.result.verdict :
            Flagged(m) =>
                \/ report.result.table[m]["mean"].status = "regression"
                \/ report.result.table[m]["p90"].status = "regression"

\* ---- C23
\* C23: the per-statistic classifier respects the sign of the drift: a
\* percent_diff of 0 or more is never classified improvement or
\* minor_improvement, one of 0 or less never regression or minor_regression.
C23_SignRespected ==
    report.op = "classify" =>
        /\ ~PctLess(0) => report.line.status \notin {"improvement", "minor_improvement"}
        /\ ~PctMore(0) => report.line.status \notin {"regression", "minor_regression"}

====
